---- MODULE Spec2Model ----
(***************************************************************************)
(* LSP-ltex-plus: the settings expansion and external-file synchronisation *)
(* engine of src/settings.py (class SettingsManager).                      *)
(*                                                                         *)
(* Data representation.                                                    *)
(*   - A Python str is a sequence of tokens.  A token is a one-character   *)
(*     string; the fixed parts of a path (the packages directory, the      *)
(*     ".txt" suffix, ...) are single opaque tokens.                       *)
(*   - A JSON-like value is a record [t, v]: t is its Python type.         *)
(*   - A word file is the sequence of its lines, every line terminated by  *)
(*     "\n" (the format the program writes), with a modification time.     *)
(*     Every write to a file, by the program or from outside, gives it a   *)
(*     modification time it did not have before.                           *)
(***************************************************************************)
EXTENDS Integers, Sequences, FiniteSets, TLC

VARIABLES
    settings,   \* the host settings store (sublime.Settings): name -> value
    fs,         \* the word files: path -> [exists, lines, mtime]
    dirs,       \* the directories that exist
    cache,      \* SettingsManager._cache: path -> [present, mtime, words]
    call,       \* the last operation: its inputs and what it returned
    ops,        \* the number of operations so far
    lock,       \* SettingsManager._lock: 0 when free, else the holding thread
    thr         \* the threads of the concurrent runs: thread -> its frame

vars == <<settings, fs, dirs, cache, call, ops, lock, thr>>

(***************************************************************************)
(* Bounds of the model.                                                    *)
(***************************************************************************)
\* file modification times run over 0..MaxTime
MaxTime == 3
\* an incoming entry list holds up to MaxIncoming entries
MaxIncoming == 2
\* a run holds up to MaxOps operations
MaxOps == 4

\* the longest language tag whose path is computed
MaxTag == 2

(***************************************************************************)
(* Python str: strip, startswith, comparison, sorted.                      *)
(***************************************************************************)
IsSpace(c) == c \in {" ", "\t"}

RECURSIVE lstrip(_)
lstrip(s) == IF s # <<>> /\ IsSpace(Head(s)) THEN lstrip(Tail(s)) ELSE s

RECURSIVE rstrip(_)
rstrip(s) ==
    IF s # <<>> /\ IsSpace(s[Len(s)]) THEN rstrip(SubSeq(s, 1, Len(s) - 1)) ELSE s

strip(s) == rstrip(lstrip(s))

startswith(s, c) == s # <<>> /\ Head(s) = c

\* code points of the characters the model uses
ord(c) ==
    CASE c = "\t" -> 9  [] c = " " -> 32 [] c = "#" -> 35 [] c = "*" -> 42
      [] c = "-" -> 45  [] c = "." -> 46 [] c = "/" -> 47 [] c = ":" -> 58
      [] c = "_" -> 95  [] c = "a" -> 97 [] c = "b" -> 98 [] c = "c" -> 99
      [] c = "d" -> 100 [] c = "e" -> 101 [] c = "n" -> 110
      [] OTHER -> 0

RECURSIVE StrLess(_, _)
StrLess(s, t) ==
    IF s = <<>> THEN t # <<>>
    ELSE IF t = <<>> THEN FALSE
    ELSE IF Head(s) = Head(t) THEN StrLess(Tail(s), Tail(t))
    ELSE ord(Head(s)) < ord(Head(t))

RECURSIVE sorted(_)
sorted(S) ==
    IF S = {} THEN <<>>
    ELSE LET m == CHOOSE x \in S : \A y \in S \ {x} : StrLess(x, y)
         IN  <<m>> \o sorted(S \ {m})

(***************************************************************************)
(* JSON-like values.                                                       *)
(***************************************************************************)
None == [t |-> "none", v |-> <<>>]
Str(s) == [t |-> "str", v |-> s]
Bool(b) == [t |-> "bool", v |-> b]
List(l) == [t |-> "list", v |-> l]
Dict(d) == [t |-> "dict", v |-> d]

EmptyDict == <<>>

\* d.get(k)
Get(d, k) == IF k \in DOMAIN d THEN d[k] ELSE None

\* d[k] = v
DictSet(d, k, v) == [x \in DOMAIN d \cup {k} |-> IF x = k THEN v ELSE d[x]]

_as_dict(val) == IF val.t = "dict" THEN val.v ELSE EmptyDict

_as_list(val) == IF val.t = "list" THEN val.v ELSE <<>>

IsNonEmptyStr(x) == x.t = "str" /\ x.v # <<>>

RECURSIVE StrItems(_)
\* [x for x in items if isinstance(x, str) and x]
StrItems(items) ==
    IF items = <<>> THEN <<>>
    ELSE (IF IsNonEmptyStr(Head(items)) THEN <<Head(items).v>> ELSE <<>>)
         \o StrItems(Tail(items))

\* a Python list of str as a value
StrList(l) == List([i \in 1..Len(l) |-> Str(l[i])])

\* bool(val)
Truthy(val) ==
    CASE val.t = "bool" -> val.v
      [] val.t = "none" -> FALSE
      [] OTHER -> val.v # <<>>

_is_external_marker(x) == startswith(x, ":") /\ Len(x) > 1

_create_marker(path) == <<":">> \o path

(***************************************************************************)
(* The scopes.                                                             *)
(***************************************************************************)
_SCOPES ==
    << [server_key |-> "ltex.dictionary",
        expand_keys |-> <<"ltex.dictionary", "dictionary">>,
        enable_key |-> "use_external_dictionary_files",
        dir_key |-> "external_dictionary_dir",
        default_subdir |-> "dictionaries",
        file_template |-> [pre |-> <<>>, post |-> <<".txt">>]],
       [server_key |-> "ltex.hiddenFalsePositives",
        expand_keys |-> <<"ltex.hiddenFalsePositives", "hiddenFalsePositives">>,
        enable_key |-> "use_external_hidden_false_positives_files",
        dir_key |-> "external_hidden_false_positives_dir",
        default_subdir |-> "hidden_false_positives",
        file_template |-> [pre |-> <<"hiddenFalsePositives.">>, post |-> <<".txt">>]],
       [server_key |-> "ltex.disabledRules",
        expand_keys |-> <<"ltex.disabledRules", "disabledRules">>,
        enable_key |-> "use_external_disabled_rules_files",
        dir_key |-> "external_disabled_rules_dir",
        default_subdir |-> "disabled_rules",
        file_template |-> [pre |-> <<"disabledRules.">>, post |-> <<".txt">>]] >>

NoScope == [server_key |-> "", expand_keys |-> <<>>, enable_key |-> "",
            dir_key |-> "", default_subdir |-> "",
            file_template |-> [pre |-> <<>>, post |-> <<>>]]

\* a lookup that takes the alias keys of a scope for the scope as well
FindScopeByAlias(server_setting_key) ==
    LET hits == {i \in 1..Len(_SCOPES) :
                    \/ _SCOPES[i].server_key = server_setting_key
                    \/ \E j \in 1..Len(_SCOPES[i].expand_keys) :
                           _SCOPES[i].expand_keys[j] = server_setting_key}
    IN  IF hits = {} THEN NoScope
        ELSE _SCOPES[CHOOSE i \in hits : \A j \in hits : i <= j]

\* next((s for s in _SCOPES if s.server_key == server_setting_key), None)
FindScope(server_setting_key) ==
    LET hits == {i \in 1..Len(_SCOPES) : _SCOPES[i].server_key = server_setting_key}
    IN  IF hits = {} THEN NoScope
        ELSE _SCOPES[CHOOSE i \in hits : \A j \in hits : i <= j]

_external_enabled(st, scope) == Truthy(Get(st, scope.enable_key))

(***************************************************************************)
(* Paths.                                                                  *)
(***************************************************************************)
packages_path == <<"/Packages">>

\* Path(a, b): a / b
Join(a, b) == a \o <<"/">> \o b

is_absolute(p) == p # <<>> /\ Head(p) \in {"/", "/Packages", "/home"}

\* os.path.expanduser: a leading "~" becomes the home directory
expanduser(s) == IF startswith(s, "~") THEN <<"/home">> \o Tail(s) ELSE s

\* the characters of [A-Za-z0-9._-] the model uses
SafeChars == {"a", "b", "c", "d", "e", "n", ".", "_", "-"}

RECURSIVE SubRunsPerChar(_, _)
\* a substitution that puts a "_" for each character outside SafeChars
SubRunsPerChar(s, inRun) ==
    IF s = <<>> THEN <<>>
    ELSE (IF Head(s) \in SafeChars THEN <<Head(s)>> ELSE <<"_">>)
         \o SubRunsPerChar(Tail(s), FALSE)

RECURSIVE SubRuns(_, _)
\* _lang_sanitize_re.sub("_", s): each maximal run outside SafeChars becomes "_"
SubRuns(s, inRun) ==
    IF s = <<>> THEN <<>>
    ELSE IF Head(s) \in SafeChars THEN <<Head(s)>> \o SubRuns(Tail(s), FALSE)
    ELSE (IF inRun THEN <<>> ELSE <<"_">>) \o SubRuns(Tail(s), TRUE)

_get_external_dir(st, scope) ==
    LET raw == Get(st, scope.dir_key)
    IN  IF raw.t = "str" /\ strip(raw.v) # <<>>
        THEN LET p == expanduser(strip(raw.v))
             IN  IF is_absolute(p) THEN p
                 ELSE Join(Join(packages_path, <<"User">>), p)
        ELSE Join(Join(Join(packages_path, <<"User">>), <<"LSP-ltex-plus">>),
                  <<scope.default_subdir>>)

_get_active_dict_path(st, scope, lang) ==
    LET base_dir == _get_external_dir(st, scope)
        subbed == SubRuns(strip(lang), FALSE)
        safe_lang == IF subbed = <<>> THEN <<"unknown">> ELSE subbed
    IN  Join(base_dir, scope.file_template.pre \o safe_lang \o scope.file_template.post)

\* path.parent of a file path built by _get_active_dict_path
Parent(path) ==
    LET cut == CHOOSE i \in 1..Len(path) :
                   path[i] = "/" /\ \A j \in (i + 1)..Len(path) : path[j] # "/"
    IN  SubSeq(path, 1, cut - 1)

(***************************************************************************)
(* The word files and the cache.  An operator with several steps is split  *)
(* into one operator per step, each handing its result to the next.        *)
(***************************************************************************)
NoEntry == [present |-> FALSE, mtime |-> -1, words |-> {}]

Range(s) == {s[i] : i \in 1..Len(s)}

\* path.stat().st_mtime if path.exists() else -1.0
CurrentMtime(f, path) == IF f[path].exists THEN f[path].mtime ELSE -1

\* whether a stripped line is kept as a word
IsWord(w) == w # <<>> /\ ~startswith(w, "#")

\* the words of a file's text: its stripped lines, without the empty ones and
\* the "#" comments
ParseWords(lines) == {w \in {strip(l) : l \in Range(lines)} : IsWord(w)}

\* a load that keeps the words it had cached when the read fails
ReadAndStoreKeeping(c, path, current_mtime, words, failed) ==
    [cache |-> [c EXCEPT ![path] =
                   [present |-> TRUE, mtime |-> current_mtime,
                    words |-> IF failed THEN c[path].words ELSE words]],
     words |-> IF failed THEN c[path].words ELSE words, hit |-> FALSE,
     failed |-> failed]

\* the second half of _ensure_cache_loaded: read the file, replace the entry
ReadAndStore(c, path, current_mtime, words, failed) ==
    [cache |-> [c EXCEPT ![path] =
                   [present |-> TRUE, mtime |-> current_mtime, words |-> words]],
     words |-> words, hit |-> FALSE, failed |-> failed]

\* _ensure_cache_loaded: the words, the cache afterwards, whether the cached
\* entry was used, whether the read failed; readFails: path.read_text raises
_ensure_cache_loaded(c, f, path, readFails) ==
    IF c[path].present /\ c[path].mtime = CurrentMtime(f, path)
    THEN [cache |-> c, words |-> c[path].words, hit |-> TRUE, failed |-> FALSE]
    ELSE ReadAndStore(c, path, CurrentMtime(f, path),
                      IF f[path].exists /\ ~readFails
                      THEN ParseWords(f[path].lines) ELSE {},
                      f[path].exists /\ readFails)

RECURSIVE AddLoop(_, _, _)
\* the for loop of _append_words_to_file
AddLoop(words, existing_set, added) ==
    IF words = <<>> THEN [existing_set |-> existing_set, added |-> added]
    ELSE IF ~IsWord(strip(Head(words))) \/ strip(Head(words)) \in existing_set
         THEN AddLoop(Tail(words), existing_set, added)
         ELSE AddLoop(Tail(words), existing_set \cup {strip(Head(words))},
                      Append(added, strip(Head(words))))

\* path.open("a"): the file after the lines `added` were written to its end
WriteLines(f, path, added) ==
    [f EXCEPT ![path] = [exists |-> TRUE,
                         lines |-> (IF @.exists THEN @.lines ELSE <<>>) \o added,
                         mtime |-> @.mtime + 1]]

\* the refresh left out: the entry keeps the mtime of before the write
StaleMtime(c, f, path) == c

\* cls._cache[str(path)]["mtime"] = path.stat().st_mtime
RefreshMtime(c, f, path) == [c EXCEPT ![path].mtime = CurrentMtime(f, path)]

\* the end of _append_words_to_file: c1 is the cache after the loop, f1 the
\* file system after the write
AppendDone(c1, f1, d1, ld, added, wrote) ==
    [cache |-> IF wrote THEN RefreshMtime(c1, f1, ld.path) ELSE c1,
     fs |-> f1, dirs |-> d1, added |-> added, wrote |-> wrote,
     hit |-> ld.hit, before |-> ld.words, failed |-> added # <<>> /\ ~wrote]

\* _append_words_to_file after the loop.  existing_set is the set object the
\* cache entry holds, so the loop's additions are in the cache.
AppendAfterLoop(ld, loop, f, d1, writeFails) ==
    AppendDone([ld.cache EXCEPT ![ld.path].words = loop.existing_set],
               IF loop.added # <<>> /\ ~writeFails
               THEN WriteLines(f, ld.path, loop.added) ELSE f,
               d1, ld, loop.added, loop.added # <<>> /\ ~writeFails)

\* _append_words_to_file after existing_set = _ensure_cache_loaded(path)
AppendAfterLoad(ld, path, f, d1, words, writeFails) ==
    AppendAfterLoop([cache |-> ld.cache, words |-> ld.words, hit |-> ld.hit,
                     path |-> path],
                    AddLoop(words, ld.words, <<>>), f, d1, writeFails)

\* _append_words_to_file; writeFails: path.open raises
_append_words_to_file(c, f, d, path, words, writeFails) ==
    AppendAfterLoad(_ensure_cache_loaded(c, f, path, FALSE), path, f,
                    d \cup {Parent(path)}, words, writeFails)

(***************************************************************************)
(* expand_settings.                                                        *)
(***************************************************************************)
RECURSIVE SetToSeq(_)
SetToSeq(S) ==
    IF S = {} THEN <<>>
    ELSE <<CHOOSE y \in S : TRUE>> \o SetToSeq(S \ {CHOOSE y \in S : TRUE})

\* the marker test of expand_settings
IsMarkerList(items) ==
    Len(items) = 1 /\ items[1].t = "str" /\ startswith(items[1].v, ":")

\* an expansion of a marker that drops the cache entry of its load
ExpandMarkerUncached(acc, lang, ld) ==
    [dict_cfg |-> [acc.dict_cfg EXCEPT ![lang] = StrList(sorted(ld.words))],
     cache |-> acc.cache, failed |-> acc.failed \/ ld.failed]

\* dict_cfg[lang] = sorted(words_set)
ExpandMarker(acc, lang, ld) ==
    [dict_cfg |-> [acc.dict_cfg EXCEPT ![lang] = StrList(sorted(ld.words))],
     cache |-> ld.cache, failed |-> acc.failed \/ ld.failed]

\* one language of the loop of expand_settings
ExpandLang(acc, f, lang, readFails) ==
    IF IsMarkerList(_as_list(acc.dict_cfg[lang]))
    THEN ExpandMarker(acc, lang,
             _ensure_cache_loaded(acc.cache, f, Tail(_as_list(acc.dict_cfg[lang])[1].v),
                 Tail(_as_list(acc.dict_cfg[lang])[1].v) \in readFails))
    ELSE acc

RECURSIVE ExpandLangs(_, _, _, _)
\* for lang, items_any in dict_cfg.items()
ExpandLangs(acc, f, langs, readFails) ==
    IF langs = <<>> THEN acc
    ELSE ExpandLangs(ExpandLang(acc, f, Head(langs), readFails), f, Tail(langs),
                     readFails)

\* the key of the scope that the document holds, "" when it holds none
TargetKey(expanded, scope) ==
    IF scope.server_key \in DOMAIN expanded THEN scope.server_key
    ELSE IF \E i \in 1..Len(scope.expand_keys) : scope.expand_keys[i] \in DOMAIN expanded
    THEN scope.expand_keys[CHOOSE i \in 1..Len(scope.expand_keys) :
             /\ scope.expand_keys[i] \in DOMAIN expanded
             /\ \A j \in 1..(i - 1) : scope.expand_keys[j] \notin DOMAIN expanded]
    ELSE ""

\* expanded[target_key] = dict_cfg
ExpandStore(expanded, target_key, r) ==
    [doc |-> [expanded EXCEPT ![target_key] = Dict(r.dict_cfg)], cache |-> r.cache,
     failed |-> r.failed]

\* one scope of the loop of expand_settings
ExpandScope(acc, f, target_key, readFails) ==
    IF target_key = "" THEN acc
    ELSE ExpandStore(acc.doc, target_key,
             ExpandLangs([dict_cfg |-> _as_dict(acc.doc[target_key]), cache |-> acc.cache,
                          failed |-> acc.failed],
                         f, SetToSeq(DOMAIN _as_dict(acc.doc[target_key])), readFails))

RECURSIVE ExpandScopes(_, _, _, _)
\* for scope in _SCOPES
ExpandScopes(acc, f, i, readFails) ==
    IF i > Len(_SCOPES) THEN acc
    ELSE ExpandScopes(ExpandScope(acc, f, TargetKey(acc.doc, _SCOPES[i]), readFails),
                      f, i + 1, readFails)

\* expand_settings(server_settings): the expanded copy and the cache afterwards;
\* readFails: the paths whose read_text raises
expand_settings(server_settings, c, f, readFails) ==
    ExpandScopes([doc |-> server_settings, cache |-> c, failed |-> FALSE], f, 1,
                 readFails)

\* whether expand_settings of a document calls _ensure_cache_loaded: some
\* language under the key of a scope holds a marker list
LoadsMarker(server_settings) ==
    \E i \in 1..Len(_SCOPES) :
        /\ TargetKey(server_settings, _SCOPES[i]) # ""
        /\ \E lang \in DOMAIN _as_dict(server_settings[TargetKey(server_settings, _SCOPES[i])]) :
               IsMarkerList(_as_list(
                   _as_dict(server_settings[TargetKey(server_settings, _SCOPES[i])])[lang]))

(***************************************************************************)
(* update_from_code_action.  The incoming value is an ordered mapping: a   *)
(* sequence of <<language tag, entries>> pairs with distinct tags.         *)
(* writeFails is the set of <<i, k>> for which the k-th append of the i-th *)
(* language cannot open its file.                                          *)
(***************************************************************************)
NotMarker(x) == ~_is_external_marker(x)

\* settings.set("settings", server_settings); sublime.save_settings(...)
_persist_settings(st, server_settings) ==
    [st EXCEPT !["settings"] = Dict(server_settings)]

\* a marker that is stored whatever the list holds
ExternalMarkerAlways(acc, lang_key, i, a1, a2, existing_list, marker) ==
    [dict_cfg |-> DictSet(acc.dict_cfg, lang_key, StrList(<<marker>>)),
     cache |-> a2.cache, fs |-> a2.fs, dirs |-> a2.dirs,
     changed_settings |-> TRUE,
     words_added_to_file |-> acc.words_added_to_file \/ a1.added # <<>>,
     failures |-> acc.failures
                  \cup (IF a1.failed THEN {<<i, 1>>} ELSE {})
                  \cup (IF a2.failed THEN {<<i, 2>>} ELSE {})]

\* if existing_list != [marker]: dict_cfg[lang_key] = [marker]
ExternalMarker(acc, lang_key, i, a1, a2, existing_list, marker) ==
    [dict_cfg |-> IF existing_list # <<marker>>
                  THEN DictSet(acc.dict_cfg, lang_key, StrList(<<marker>>))
                  ELSE acc.dict_cfg,
     cache |-> a2.cache, fs |-> a2.fs, dirs |-> a2.dirs,
     changed_settings |-> acc.changed_settings \/ existing_list # <<marker>>,
     words_added_to_file |-> acc.words_added_to_file \/ a1.added # <<>>,
     failures |-> acc.failures
                  \cup (IF a1.failed THEN {<<i, 1>>} ELSE {})
                  \cup (IF a2.failed THEN {<<i, 2>>} ELSE {})]

\* if embedded_words: _append_words_to_file(dict_path, embedded_words)
ExternalMigrate(acc, lang_key, dict_path, i, a1, existing_list, writeFails) ==
    ExternalMarker(acc, lang_key, i, a1,
        IF SelectSeq(existing_list, NotMarker) # <<>>
        THEN _append_words_to_file(a1.cache, a1.fs, a1.dirs, dict_path,
                                   SelectSeq(existing_list, NotMarker), writeFails)
        ELSE [a1 EXCEPT !.added = <<>>, !.wrote = FALSE, !.failed = FALSE],
        existing_list, _create_marker(dict_path))

\* added = _append_words_to_file(dict_path, incoming)
ExternalAppend(acc, lang_key, dict_path, incoming, i, writeFails) ==
    ExternalMigrate(acc, lang_key, dict_path, i,
        _append_words_to_file(acc.cache, acc.fs, acc.dirs, dict_path, incoming,
                              <<i, 1>> \in writeFails),
        StrItems(_as_list(Get(acc.dict_cfg, lang_key))),
        <<i, 2>> \in writeFails)

RECURSIVE ExternalLoop(_, _, _, _, _, _)
\* for lang, items_any in value.items(), of _update_dictionary_external
ExternalLoop(st, scope, value, i, acc, writeFails) ==
    IF i > Len(value) THEN acc
    ELSE IF StrItems(_as_list(value[i][2])) = <<>>
    THEN ExternalLoop(st, scope, value, i + 1, acc, writeFails)
    ELSE ExternalLoop(st, scope, value, i + 1,
             ExternalAppend(acc, value[i][1],
                            _get_active_dict_path(st, scope, value[i][1]),
                            StrItems(_as_list(value[i][2])), i, writeFails),
             writeFails)

\* the end of _update_dictionary_external
ExternalFinish(st, old_server_settings, key, r) ==
    IF r.changed_settings
    THEN [settings |-> _persist_settings(st,
                           DictSet(old_server_settings, key, Dict(r.dict_cfg))),
          cache |-> r.cache, fs |-> r.fs, dirs |-> r.dirs,
          ret |-> FALSE, persisted |-> TRUE, failures |-> r.failures]
    ELSE [settings |-> st, cache |-> r.cache, fs |-> r.fs, dirs |-> r.dirs,
          ret |-> r.words_added_to_file, persisted |-> FALSE,
          failures |-> r.failures]

_update_dictionary_external(st, c, f, d, scope, value, writeFails) ==
    ExternalFinish(st, _as_dict(Get(st, "settings")), scope.server_key,
        ExternalLoop(st, scope, value, 1,
            [dict_cfg |-> _as_dict(Get(_as_dict(Get(st, "settings")), scope.server_key)),
             cache |-> c, fs |-> f, dirs |-> d,
             changed_settings |-> FALSE, words_added_to_file |-> FALSE,
             failures |-> {}],
            writeFails))

\* _merge_lists without its seen set
_merge_lists_keeping_duplicates(existing, incoming) == existing \o incoming

RECURSIVE _merge_lists(_, _)
_merge_lists(existing, incoming) ==
    IF incoming = <<>> THEN existing
    ELSE IF Head(incoming) \in Range(existing)
         THEN _merge_lists(existing, Tail(incoming))
         ELSE _merge_lists(Append(existing, Head(incoming)), Tail(incoming))

\* a merge that takes every language for changed
PlainMergeAlways(acc, lang_key, existing, merged) ==
    [target_dict |-> DictSet(acc.target_dict, lang_key, StrList(merged)),
     changed |-> TRUE]

\* if merged != existing: target_dict[lang_key] = merged
PlainMerge(acc, lang_key, existing, merged) ==
    IF merged # existing
    THEN [target_dict |-> DictSet(acc.target_dict, lang_key, StrList(merged)),
          changed |-> TRUE]
    ELSE acc

\* one language of the loop of _update_settings_plain
PlainLang(acc, lang_key, existing, incoming) ==
    PlainMerge(acc, lang_key, existing, _merge_lists(existing, incoming))

RECURSIVE PlainLoop(_, _, _)
\* for lang, items_any in value.items(), of _update_settings_plain
PlainLoop(value, i, acc) ==
    IF i > Len(value) THEN acc
    ELSE PlainLoop(value, i + 1,
             PlainLang(acc, value[i][1],
                       StrItems(_as_list(Get(acc.target_dict, value[i][1]))),
                       StrItems(_as_list(value[i][2]))))

\* the end of _update_settings_plain
PlainFinish(st, c, f, d, old_server_settings, key, r) ==
    [settings |-> IF r.changed
                  THEN _persist_settings(st,
                           DictSet(old_server_settings, key, Dict(r.target_dict)))
                  ELSE st,
     cache |-> c, fs |-> f, dirs |-> d, ret |-> FALSE, persisted |-> r.changed,
     failures |-> {}]

\* _update_settings_plain, and the return False of update_from_code_action
_update_settings_plain(st, c, f, d, key, value) ==
    PlainFinish(st, c, f, d, _as_dict(Get(st, "settings")), key,
        PlainLoop(value, 1,
            [target_dict |-> _as_dict(Get(_as_dict(Get(st, "settings")), key)),
             changed |-> FALSE]))

\* the languages of a value for which _update_dictionary_external calls
\* _append_words_to_file
AppendsFor(value) == {i \in 1..Len(value) : StrItems(_as_list(value[i][2])) # <<>>}

\* the first of them
FirstAppend(value) == CHOOSE i \in AppendsFor(value) : \A j \in AppendsFor(value) : i <= j

\* whether update_from_code_action takes the external-file path
TakesExternal(st, server_setting_key) ==
    /\ FindScope(server_setting_key) # NoScope
    /\ _external_enabled(st, FindScope(server_setting_key))

update_from_code_action(st, c, f, d, server_setting_key, value, writeFails) ==
    IF TakesExternal(st, server_setting_key)
    THEN _update_dictionary_external(st, c, f, d, FindScope(server_setting_key),
                                     value, writeFails)
    ELSE _update_settings_plain(st, c, f, d, server_setting_key, value)

(***************************************************************************)
(* The inputs of the model.                                                *)
(***************************************************************************)
LangEn == <<"e", "n">>
LangDe == <<"d", "e">>
Langs == {LangEn, LangDe}

WordA == <<"a">>
WordB == <<"b">>
PaddedA == <<" ", "a">>
Comment == <<"#", "a">>
Blank == <<" ">>
Empty == <<>>
\* an entry that begins like a marker
ColonA == <<":", "a">>

\* the entries a call may carry
Entries == {WordA, WordB, PaddedA, Comment, Blank}

SeqsUpTo(S, n) == UNION {[1..k -> S] : k \in 0..n}

\* the word lists given to _append_words_to_file
IncomingLists == SeqsUpTo(Entries, MaxIncoming)

\* the word lists of the appends whose write fails
FailingLists == SeqsUpTo({WordA, WordB}, MaxIncoming)

\* the word lists of the appends of concurrent threads
ThreadLists == {<<WordA>>, <<WordB>>, <<PaddedA, WordB>>}

\* the incoming values of the code actions
Values ==
    { << <<LangEn, StrList(<<WordA>>)>> >>,
      << <<LangEn, StrList(<<PaddedA, WordB>>)>> >>,
      << <<LangEn, StrList(<<Comment, Blank>>)>> >>,
      << <<LangEn, StrList(<<Empty>>)>> >>,
      << <<LangEn, StrList(<<Blank>>)>> >>,
      << <<LangEn, StrList(<<ColonA>>)>> >>,
      << <<LangDe, StrList(<<WordB>>)>> >>,
      << <<LangEn, StrList(<<WordA>>)>>, <<LangDe, StrList(<<WordB>>)>> >> }

\* the scope keys the code actions of the model name
ActionKeys == {"ltex.dictionary"}

\* the characters of the language tags whose path is computed: two of
\* SafeChars, a separator and a space
TagChars == {"a", ".", "/", " "}

\* the language tags whose path is computed
Tags == SeqsUpTo(TagChars, MaxTag)

\* the values of a scope's directory setting: none, blank, relative, absolute
DirValues == {None, Str(<<" ">>), Str(<<"d">>), Str(<<"/", "d">>)}

\* keys that are the canonical key of no scope: an alias, and a key no scope
\* knows
RawKeys == {"dictionary", "ltex.other"}

\* the incoming values of the code actions with such keys
RawValues ==
    { << <<LangEn, StrList(<<WordA>>)>> >>,
      << <<LangEn, StrList(<<PaddedA, WordB>>)>> >>,
      << <<LangEn, StrList(<<Empty>>)>> >>,
      << <<LangEn, StrList(<<WordA>>)>>, <<LangDe, StrList(<<WordB>>)>> >> }

EnableKeys == {_SCOPES[i].enable_key : i \in 1..Len(_SCOPES)}

DirKeys == {_SCOPES[i].dir_key : i \in 1..Len(_SCOPES)}

InitSettings ==
    [k \in {"settings"} \cup EnableKeys \cup DirKeys |->
        IF k = "settings" THEN Dict(EmptyDict)
        ELSE IF k \in EnableKeys THEN Bool(FALSE)
        ELSE None]

\* the word files of the model
Paths == {_get_active_dict_path(InitSettings, FindScope(k), lang) :
              k \in ActionKeys, lang \in Langs} \cup {Tail(ColonA)}

\* the word file that is edited from outside and used directly
EnPath == _get_active_dict_path(InitSettings, FindScope("ltex.dictionary"), LangEn)

\* what an edit outside the program may leave in a word file
ExternalContents ==
    {<<>>, <<WordB, Comment>>, <<PaddedA, WordA>>}

NoCall ==
    [op |-> "none", key |-> "", value |-> <<>>, path |-> <<>>, words |-> <<>>,
     external |-> FALSE, ret |-> FALSE, persisted |-> FALSE, added |-> <<>>,
     wrote |-> FALSE, hit |-> FALSE, before |-> {}, result |-> {}, failed |-> FALSE,
     after |-> "none", prior |-> <<>>, doc |-> EmptyDict, out |-> EmptyDict,
     raised |-> FALSE, lang |-> <<>>, message |-> FALSE,
     stage |-> "", repeat |-> FALSE,
     session |-> FALSE, cmd |-> EmptyDict, events |-> <<>>, manual |-> FALSE]

\* a thread between two calls.  local and orphan model the reference to a word
\* set that a call holds: orphan says the cache entry it came from was replaced.
NoFrame ==
    [pc |-> "idle", op |-> "none", words |-> <<>>, local |-> {}, orphan |-> FALSE,
     mtime |-> -1, added |-> <<>>, concurrent |-> FALSE,
     key |-> "", value |-> <<>>, snap |-> EmptyDict, overlap |-> FALSE]

Threads == {1, 2}

(***************************************************************************)
(* The initial state: no configuration, no word file, an empty cache.      *)
(***************************************************************************)
Init ==
    /\ settings = InitSettings
    /\ fs = [p \in Paths |-> [exists |-> FALSE, lines |-> <<>>, mtime |-> 0]]
    /\ dirs = {}
    /\ cache = [p \in Paths |-> NoEntry]
    /\ call = NoCall
    /\ ops = 0
    /\ lock = 0
    /\ thr = [t \in Threads |-> NoFrame]

\* a configuration that holds the alias key of the dictionary scope, with a
\* marker
AliasDocument ==
    DictSet(EmptyDict, "dictionary",
            Dict(DictSet(EmptyDict, LangEn, StrList(<<_create_marker(EnPath)>>))))

\* a configuration whose scope keys and language tags hold values of other
\* types than mappings and lists
TypedDocument ==
    DictSet(DictSet(EmptyDict, "ltex.hiddenFalsePositives", Str(WordA)),
            "ltex.disabledRules", Dict(DictSet(EmptyDict, LangEn, Str(WordA))))

\* the configurations the user's settings file may hold at the start
StartDocuments == {EmptyDict, AliasDocument, TypedDocument}

\* the initial states of the code actions: the settings file is the user's
ConfiguredInit ==
    /\ settings \in {[InitSettings EXCEPT !["settings"] = Dict(d)] : d \in StartDocuments}
    /\ fs = [p \in Paths |-> [exists |-> FALSE, lines |-> <<>>, mtime |-> 0]]
    /\ dirs = {}
    /\ cache = [p \in Paths |-> NoEntry]
    /\ call = NoCall
    /\ ops = 0
    /\ lock = 0
    /\ thr = [t \in Threads |-> NoFrame]

TimeOk(f) == \A p \in Paths : f[p].mtime <= MaxTime

\* one more operation of a run of at most MaxOps operations
Step == ops < MaxOps /\ ops' = ops + 1

(***************************************************************************)
(* The operations, each one whole call.                                    *)
(***************************************************************************)
\* whether a call of update_from_code_action(key, value) repeats the last
\* operation, a call that had no failure
Repeats(key, value) ==
    /\ call.op = "update" /\ ~call.failed
    /\ call.key = key /\ call.value = value

\* the state after update_from_code_action returned r; the writes that failed
\* are those of writeFails
UpdateStep(key, value, writeFails, r) ==
    /\ Step
    /\ TimeOk(r.fs)
    /\ r.failures = writeFails
    /\ settings' = r.settings
    /\ cache' = r.cache
    /\ fs' = r.fs
    /\ dirs' = r.dirs
    /\ call' = [NoCall EXCEPT !.op = "update", !.key = key, !.value = value,
                              !.external = TakesExternal(settings, key),
                              !.ret = r.ret, !.persisted = r.persisted,
                              !.failed = r.failures # {},
                              !.repeat = Repeats(key, value)]
    /\ UNCHANGED <<lock, thr>>

\* update_from_code_action(key, value), every write succeeding
UpdateFromCodeAction ==
    \E key \in ActionKeys, value \in Values :
        UpdateStep(key, value, {},
            update_from_code_action(settings, cache, fs, dirs, key, value, {}))

\* update_from_code_action with a key that is no scope's canonical key
UpdateRawKey ==
    \E key \in RawKeys, value \in RawValues :
        UpdateStep(key, value, {},
            update_from_code_action(settings, cache, fs, dirs, key, value, {}))

\* a code action during which path.open raises for some of its appends
UpdateWriteFails ==
    \E key \in ActionKeys, value \in Values :
        \E writeFails \in (SUBSET ((1..Len(value)) \X {1, 2})) \ {{}} :
            UpdateStep(key, value, writeFails,
                update_from_code_action(settings, cache, fs, dirs, key, value,
                                        writeFails))

\* a code action in external mode whose first path.parent.mkdir raises: the
\* directory is not there and cannot be made.  The exception leaves
\* _append_words_to_file, _update_dictionary_external and
\* update_from_code_action.
UpdateMkdirFails ==
    \E key \in ActionKeys, value \in Values :
        /\ Step
        /\ TakesExternal(settings, key)
        /\ AppendsFor(value) # {}
        /\ Parent(_get_active_dict_path(settings, FindScope(key),
                                        value[FirstAppend(value)][1])) \notin dirs
        /\ call' = [NoCall EXCEPT !.op = "update", !.key = key, !.value = value,
                                  !.external = TRUE, !.failed = TRUE, !.raised = TRUE]
        /\ UNCHANGED <<settings, fs, dirs, cache, lock, thr>>

\* the state after expand_settings returned r
ExpandStep(readFails, r) ==
    /\ Step
    /\ r.failed = (readFails # {})
    /\ cache' = r.cache
    /\ call' = [NoCall EXCEPT !.op = "expand", !.failed = r.failed,
                              !.doc = _as_dict(Get(settings, "settings")),
                              !.out = r.doc]
    /\ UNCHANGED <<settings, fs, dirs, lock, thr>>

\* expand_settings of the stored configuration (on_workspace_configuration,
\* _trigger_manual_update)
ExpandSettings ==
    ExpandStep({}, expand_settings(_as_dict(Get(settings, "settings")), cache, fs, {}))

\* an expansion during which path.read_text raises
ExpandReadFails ==
    ExpandStep({EnPath},
        expand_settings(_as_dict(Get(settings, "settings")), cache, fs, {EnPath}))

\* an expansion whose first path.stat raises: the exception leaves
\* _ensure_cache_loaded and expand_settings
ExpandStatFails ==
    /\ Step
    /\ LoadsMarker(_as_dict(Get(settings, "settings")))
    /\ call' = [NoCall EXCEPT !.op = "expand", !.failed = TRUE, !.raised = TRUE,
                              !.doc = _as_dict(Get(settings, "settings"))]
    /\ UNCHANGED <<settings, fs, dirs, cache, lock, thr>>

\* the state after _append_words_to_file returned r
AppendStep(path, words, writeFails, r) ==
    /\ Step
    /\ TimeOk(r.fs)
    /\ r.failed = writeFails
    /\ cache' = r.cache
    /\ fs' = r.fs
    /\ dirs' = r.dirs
    /\ call' = [NoCall EXCEPT !.op = "append", !.path = path, !.words = words,
                              !.added = r.added, !.wrote = r.wrote, !.hit = r.hit,
                              !.before = r.before, !.failed = r.failed]
    /\ UNCHANGED <<settings, lock, thr>>

\* _append_words_to_file(path, words)
AppendWords ==
    \E words \in IncomingLists :
        AppendStep(EnPath, words, FALSE,
                   _append_words_to_file(cache, fs, dirs, EnPath, words, FALSE))

\* an append whose path.open raises
AppendWordsFails ==
    \E words \in FailingLists :
        AppendStep(EnPath, words, TRUE,
                   _append_words_to_file(cache, fs, dirs, EnPath, words, TRUE))

\* the state after _ensure_cache_loaded returned r
LoadStep(path, readFails, r) ==
    /\ Step
    /\ r.failed = readFails
    /\ cache' = r.cache
    /\ call' = [NoCall EXCEPT !.op = "load", !.path = path, !.hit = r.hit,
                              !.result = r.words, !.failed = r.failed,
                              !.after = call.op, !.prior = call.added]
    /\ UNCHANGED <<settings, fs, dirs, lock, thr>>

\* _ensure_cache_loaded(path)
LoadWords == LoadStep(EnPath, FALSE, _ensure_cache_loaded(cache, fs, EnPath, FALSE))

\* a load whose path.read_text raises
LoadWordsFails ==
    LoadStep(EnPath, TRUE, _ensure_cache_loaded(cache, fs, EnPath, TRUE))

(***************************************************************************)
(* The environment: the user edits or removes a word file, or flips a      *)
(* scope's enable flag in the settings.                                    *)
(***************************************************************************)
ExternalEdit ==
    \E lines \in ExternalContents :
        /\ Step
        /\ fs[EnPath].mtime < MaxTime
        /\ fs' = [fs EXCEPT ![EnPath] = [exists |-> TRUE, lines |-> lines,
                                         mtime |-> @.mtime + 1]]
        /\ dirs' = dirs \cup {Parent(EnPath)}
        /\ call' = [NoCall EXCEPT !.op = "edit", !.path = EnPath]
        /\ UNCHANGED <<settings, cache, lock, thr>>

ExternalDelete ==
    /\ Step
    /\ fs[EnPath].exists
    /\ fs' = [fs EXCEPT ![EnPath] = [exists |-> FALSE, lines |-> <<>>, mtime |-> @.mtime]]
    /\ call' = [NoCall EXCEPT !.op = "delete", !.path = EnPath]
    /\ UNCHANGED <<settings, dirs, cache, lock, thr>>

SetEnabled ==
    \E key \in ActionKeys :
        /\ Step
        /\ settings' = [settings EXCEPT ![FindScope(key).enable_key] = Bool(~@.v)]
        /\ call' = [NoCall EXCEPT !.op = "enable", !.key = key]
        /\ UNCHANGED <<fs, dirs, cache, lock, thr>>

(***************************************************************************)
(* Spec: the code actions and the expansion; a write or a read of a word    *)
(* file may fail, and so may the making of its directory and its stat.     *)
(***************************************************************************)
Next ==
    \/ UpdateFromCodeAction
    \/ UpdateWriteFails
    \/ UpdateMkdirFails
    \/ ExpandSettings
    \/ ExpandReadFails
    \/ ExpandStatFails
    \/ ExternalEdit
    \/ ExternalDelete
    \/ SetEnabled

Spec == ConfiguredInit /\ [][Next]_vars

(***************************************************************************)
(* InstallSpec: the installation of the language server (server.py).  The  *)
(* directories of the Package Storage are members of dirs.                 *)
(***************************************************************************)
LATEST_TESTED_RELEASE == <<"18.6.1">>

\* the versions the user may ask for in the settings
Versions == {None, Str(<<"18.6.0">>), Str(<<"18.5.1">>)}

basedir == <<"/Storage", "/", "LSP-ltex-plus">>

serverversion(st) ==
    IF Truthy(Get(st, "version")) THEN Get(st, "version").v ELSE LATEST_TESTED_RELEASE

serverdir(st) == basedir \o <<"/", "ltex-ls-plus-">> \o serverversion(st)

needs_update_or_installation(st, d) == serverdir(st) \notin d

\* whether path p is directory q or lies below it
Below(p, q) == Len(p) >= Len(q) /\ SubSeq(p, 1, Len(q)) = q

\* the directories of a complete server in directory dir
ServerTree(dir) == {dir, dir \o <<"/", "bin">>, dir \o <<"/", "lib">>}

\* if os.path.isdir(basedir): shutil.rmtree(basedir); os.makedirs(basedir)
FreshBasedir(d) == {p \in d : ~Below(p, basedir)} \cup {basedir}

\* the state after install_or_update: the directories, the step that failed,
\* whether an error message was shown, whether the call ended in an exception
InstallStep(d, stage, message, raised) ==
    /\ Step
    /\ dirs' = d
    /\ call' = [NoCall EXCEPT !.op = "install", !.failed = (stage # ""),
                              !.stage = stage, !.message = message,
                              !.raised = raised]
    /\ UNCHANGED <<settings, fs, cache, lock, thr>>

\* install_or_update, every step succeeding: shutil.move puts the extracted
\* folder into basedir
InstallOrUpdate ==
    InstallStep(FreshBasedir(dirs) \cup ServerTree(serverdir(settings)),
                "", FALSE, FALSE)

\* urlretrieve raises URLError: error message, return
InstallDownloadFails == InstallStep(FreshBasedir(dirs), "download", TRUE, FALSE)

\* extractall raises BadZipFile or TarError: error message, return
InstallExtractFails == InstallStep(FreshBasedir(dirs), "extract", TRUE, FALSE)

\* shutil.move raises (the folder is not in the archive, or the copy to
\* another file system breaks off): nothing, or a part of the server, is in
\* basedir, and the exception leaves install_or_update
InstallMoveFails ==
    \E part \in {{}, {serverdir(settings)},
                  {serverdir(settings), serverdir(settings) \o <<"/", "bin">>}} :
        InstallStep(FreshBasedir(dirs) \cup part, "move", FALSE, TRUE)

\* the user sets the version of the server in the settings
SetVersion ==
    \E v \in Versions :
        /\ Step
        /\ settings' = DictSet(settings, "version", v)
        /\ call' = [NoCall EXCEPT !.op = "version"]
        /\ UNCHANGED <<fs, dirs, cache, lock, thr>>

InstallNext ==
    \/ InstallOrUpdate
    \/ InstallDownloadFails
    \/ InstallExtractFails
    \/ InstallMoveFails
    \/ SetVersion

InstallSpec == Init /\ [][InstallNext]_vars

(***************************************************************************)
(* PathSpec: the path of the word file of a language tag, for every scope  *)
(* and several settings of the scope's directory.                          *)
(***************************************************************************)
\* _get_active_dict_path(settings, scope, lang)
ComputePath ==
    \E i \in 1..Len(_SCOPES), lang \in Tags :
        /\ call' = [NoCall EXCEPT !.op = "path", !.key = _SCOPES[i].server_key,
                                  !.lang = lang,
                                  !.path = _get_active_dict_path(settings, _SCOPES[i], lang)]
        /\ UNCHANGED <<settings, fs, dirs, cache, ops, lock, thr>>

\* the user sets the directory of a scope's word files
SetDirectory ==
    \E i \in 1..Len(_SCOPES), raw \in DirValues :
        /\ settings' = [settings EXCEPT ![_SCOPES[i].dir_key] = raw]
        /\ call' = [NoCall EXCEPT !.op = "directory", !.key = _SCOPES[i].server_key]
        /\ UNCHANGED <<fs, dirs, cache, ops, lock, thr>>

PathNext ==
    \/ ComputePath
    \/ SetDirectory

PathSpec == Init /\ [][PathNext]_vars

(***************************************************************************)
(* RawSpec: code actions with keys that no scope has for canonical key, in *)
(* both modes.                                                             *)
(***************************************************************************)
RawNext ==
    \/ UpdateRawKey
    \/ SetEnabled

RawSpec == ConfiguredInit /\ [][RawNext]_vars

(***************************************************************************)
(* CacheSpec: the word-file cache used directly, with failing reads and    *)
(* writes.                                                                 *)
(***************************************************************************)
CacheNext ==
    \/ AppendWords
    \/ AppendWordsFails
    \/ LoadWords
    \/ LoadWordsFails
    \/ ExternalEdit
    \/ ExternalDelete

CacheSpec == Init /\ [][CacheNext]_vars

(***************************************************************************)
(* Concurrent calls.  A thread runs _append_words_to_file, or the          *)
(* _ensure_cache_loaded that expand_settings calls, on the word file       *)
(* EnPath, one step at a time.  Reads and writes succeed here.             *)
(***************************************************************************)
\* the lock not consulted
LockIgnored(l) == TRUE

\* with cls._lock: the lock can be taken
LockFree(l) == l = 0

\* the steps of _append_words_to_file from the end of its load to its refresh
\* of the cached mtime
AfterLoad == {"a_loop", "a_write", "a_refresh"}

\* the steps of _append_words_to_file inside "with cls._lock"
Critical == {"a_check", "a_store"} \cup AfterLoad

Returned(t) == thr[t].pc \in {"idle", "done"}

\* the word set a thread's reference names: the cached one unless the entry
\* was replaced since
CurrentSet(c, t) == IF thr[t].orphan THEN thr[t].local ELSE c[EnPath].words

\* cls._cache[path_str] = {...} by thread t: the other threads' references
\* keep naming the set of the entry that was replaced
Orphaned(t, words) ==
    [u \in Threads |->
        IF u = t
        THEN [thr[t] EXCEPT !.pc = IF thr[t].op = "append" THEN "a_loop" ELSE "done",
                            !.local = words, !.orphan = FALSE]
        ELSE IF thr[u].pc \in AfterLoad /\ ~thr[u].orphan
             THEN [thr[u] EXCEPT !.local = cache[EnPath].words, !.orphan = TRUE]
             ELSE thr[u]]

\* the call of _append_words_to_file(EnPath, words): path.parent.mkdir
AppBegin(t) ==
    \E words \in ThreadLists :
        /\ Step
        /\ Returned(t)
        /\ thr' = [thr EXCEPT ![t] =
                      [NoFrame EXCEPT !.pc = "a_acquire", !.op = "append",
                                      !.words = words,
                                      !.concurrent = \E u \in Threads \ {t} : ~Returned(u)]]
        /\ dirs' = dirs \cup {Parent(EnPath)}
        /\ UNCHANGED <<settings, fs, cache, call, lock>>

\* with cls._lock
AppAcquire(t) ==
    /\ thr[t].pc = "a_acquire"
    /\ LockFree(lock)
    /\ lock' = t
    /\ thr' = [thr EXCEPT ![t].pc = "a_check"]
    /\ UNCHANGED <<settings, fs, dirs, cache, call, ops>>

\* the first half of _ensure_cache_loaded, for either caller: the stat and the
\* comparison with the entry
CheckEntry(t, hitpc, misspc) ==
    /\ thr' = [thr EXCEPT ![t] =
                  IF cache[EnPath].present /\ cache[EnPath].mtime = CurrentMtime(fs, EnPath)
                  THEN [@ EXCEPT !.pc = hitpc, !.local = cache[EnPath].words,
                                 !.orphan = FALSE]
                  ELSE [@ EXCEPT !.pc = misspc, !.mtime = CurrentMtime(fs, EnPath)]]
    /\ UNCHANGED <<settings, fs, dirs, cache, call, ops, lock>>

\* the second half of _ensure_cache_loaded, for either caller: the read of the
\* file and the replacement of the entry
StoreEntry(t, r) ==
    /\ cache' = r.cache
    /\ thr' = Orphaned(t, r.words)
    /\ UNCHANGED <<settings, fs, dirs, call, ops, lock>>

AppCheck(t) ==
    /\ thr[t].pc = "a_check"
    /\ CheckEntry(t, "a_loop", "a_store")

AppStore(t) ==
    /\ thr[t].pc = "a_store"
    /\ StoreEntry(t, ReadAndStore(cache, EnPath, thr[t].mtime,
                         IF fs[EnPath].exists THEN ParseWords(fs[EnPath].lines) ELSE {},
                         FALSE))

\* the state after the for loop of _append_words_to_file gave loop; with
\* nothing added the call returns
LoopDone(t, loop) ==
    /\ cache' = IF thr[t].orphan THEN cache
                ELSE [cache EXCEPT ![EnPath].words = loop.existing_set]
    /\ thr' = [thr EXCEPT ![t] =
                  [@ EXCEPT !.pc = IF loop.added = <<>> THEN "done" ELSE "a_write",
                            !.local = loop.existing_set, !.added = loop.added]]
    /\ lock' = IF loop.added = <<>> THEN 0 ELSE lock
    /\ UNCHANGED <<settings, fs, dirs, call, ops>>

AppLoop(t) ==
    /\ thr[t].pc = "a_loop"
    /\ LoopDone(t, AddLoop(thr[t].words, CurrentSet(cache, t), <<>>))

\* with path.open("a"): f.write(w); f.write("\n")
AppWrite(t) ==
    /\ thr[t].pc = "a_write"
    /\ fs' = WriteLines(fs, EnPath, thr[t].added)
    /\ thr' = [thr EXCEPT ![t].pc = "a_refresh"]
    /\ UNCHANGED <<settings, dirs, cache, call, ops, lock>>

\* cls._cache[str(path)]["mtime"] = path.stat().st_mtime; return added
AppRefresh(t) ==
    /\ thr[t].pc = "a_refresh"
    /\ cache' = RefreshMtime(cache, fs, EnPath)
    /\ thr' = [thr EXCEPT ![t].pc = "done"]
    /\ lock' = 0
    /\ UNCHANGED <<settings, fs, dirs, call, ops>>

\* expand_settings reaches words_set = cls._ensure_cache_loaded(path)
ExpBegin(t) ==
    /\ Step
    /\ Returned(t)
    /\ thr' = [thr EXCEPT ![t] = [NoFrame EXCEPT !.pc = "x_check", !.op = "expand"]]
    /\ UNCHANGED <<settings, fs, dirs, cache, call, lock>>

ExpCheck(t) ==
    /\ thr[t].pc = "x_check"
    /\ CheckEntry(t, "done", "x_store")

ExpStore(t) ==
    /\ thr[t].pc = "x_store"
    /\ StoreEntry(t, ReadAndStore(cache, EnPath, thr[t].mtime,
                         IF fs[EnPath].exists THEN ParseWords(fs[EnPath].lines) ELSE {},
                         FALSE))

(***************************************************************************)
(* AppendSpec: threads that append to the same file.                       *)
(***************************************************************************)
AppendNext ==
    \E t \in Threads :
        \/ AppBegin(t)
        \/ AppAcquire(t)
        \/ AppCheck(t)
        \/ AppStore(t)
        \/ AppLoop(t)
        \/ AppWrite(t)
        \/ AppRefresh(t)

AppendSpec == Init /\ [][AppendNext]_vars

(***************************************************************************)
(* SpecConc: threads that append to a file or expand its marker.           *)
(***************************************************************************)
ConcNext ==
    \E t \in Threads :
        \/ AppBegin(t)
        \/ AppAcquire(t)
        \/ AppCheck(t)
        \/ AppStore(t)
        \/ AppLoop(t)
        \/ AppWrite(t)
        \/ AppRefresh(t)
        \/ ExpBegin(t)
        \/ ExpCheck(t)
        \/ ExpStore(t)

SpecConc == Init /\ [][ConcNext]_vars

(***************************************************************************)
(* Concurrent code actions.  A thread runs update_from_code_action in      *)
(* three steps: the call, the read of the stored configuration, and the    *)
(* rest of the call from its copy of what it read: the loop over the       *)
(* languages, with its appends, and the persist.  Writes succeed here.     *)
(***************************************************************************)
\* the incoming values of the code actions of concurrent threads
ThreadValues ==
    { << <<LangEn, StrList(<<WordA>>)>> >>,
      << <<LangDe, StrList(<<WordB>>)>> >> }

\* a configuration with a literal entry under the dictionary scope
InlineDocument ==
    DictSet(EmptyDict, "ltex.dictionary",
            Dict(DictSet(EmptyDict, LangEn, StrList(<<WordB>>))))

\* the initial states of the concurrent code actions: external files enabled
\* or not, the configuration empty or not
ThreadInit ==
    /\ settings \in {[InitSettings EXCEPT
                          !["settings"] = Dict(d),
                          ![FindScope("ltex.dictionary").enable_key] = Bool(b)] :
                        d \in {EmptyDict, InlineDocument}, b \in BOOLEAN}
    /\ fs = [p \in Paths |-> [exists |-> FALSE, lines |-> <<>>, mtime |-> 0]]
    /\ dirs = {}
    /\ cache = [p \in Paths |-> NoEntry]
    /\ call = NoCall
    /\ ops = 0
    /\ lock = 0
    /\ thr = [t \in Threads |-> NoFrame]

\* the frames when thread t enters a call with frame: overlap says that a
\* thread's call and the present call of the other thread ran at the same time
Entered(t, frame) ==
    [u \in Threads |->
        IF u = t
        THEN [frame EXCEPT !.overlap = \E v \in Threads \ {t} : ~Returned(v)]
        ELSE [thr[u] EXCEPT !.overlap = ~Returned(u)]]

\* the call update_from_code_action(key, value) by thread t:
\* settings = sublime.load_settings(SETTINGS_FILENAME)
UpdBegin(t) ==
    \E key \in ActionKeys, value \in ThreadValues :
        /\ Step
        /\ Returned(t)
        /\ thr' = Entered(t, [NoFrame EXCEPT !.pc = "u_read", !.op = "update",
                                             !.key = key, !.value = value])
        /\ UNCHANGED <<settings, fs, dirs, cache, call, lock>>

\* old_server_settings = cls._as_dict(settings.get("settings"))
UpdRead(t) ==
    /\ thr[t].pc = "u_read"
    /\ thr' = [thr EXCEPT ![t] = [@ EXCEPT !.pc = "u_persist",
                                           !.snap = _as_dict(Get(settings, "settings"))]]
    /\ UNCHANGED <<settings, fs, dirs, cache, call, ops, lock>>

\* the state after the call of thread t returned r, computed from the thread's
\* copy of the configuration: cls._persist_settings(settings, server_settings)
\* stores that copy, changed
UpdReturn(t, r) ==
    /\ TimeOk(r.fs)
    /\ settings' = IF r.persisted
                   THEN _persist_settings(settings, _as_dict(Get(r.settings, "settings")))
                   ELSE settings
    /\ cache' = r.cache
    /\ fs' = r.fs
    /\ dirs' = r.dirs
    /\ thr' = [thr EXCEPT ![t].pc = "done"]
    /\ call' = [NoCall EXCEPT !.op = "update", !.key = thr[t].key,
                              !.value = thr[t].value,
                              !.external = TakesExternal(settings, thr[t].key),
                              !.ret = r.ret, !.persisted = r.persisted]
    /\ UNCHANGED <<ops, lock>>

\* the loop over the languages and the persist
UpdPersist(t) ==
    /\ thr[t].pc = "u_persist"
    /\ UpdReturn(t, update_from_code_action(
                        [settings EXCEPT !["settings"] = Dict(thr[t].snap)],
                        cache, fs, dirs, thr[t].key, thr[t].value, {}))

(***************************************************************************)
(* UpdateSpec: threads that run code actions.                              *)
(***************************************************************************)
UpdateNext ==
    \E t \in Threads :
        \/ UpdBegin(t)
        \/ UpdRead(t)
        \/ UpdPersist(t)

UpdateSpec == ThreadInit /\ [][UpdateNext]_vars

(***************************************************************************)
(* RetargetSpec: code actions on a configuration whose marker names a file *)
(* that is not the one _get_active_dict_path computes, as an update under  *)
(* another directory setting left it.                                      *)
(***************************************************************************)
\* the file written under the earlier directory setting
OldPath == Tail(ColonA)

\* the configuration that update left: the language's list is the marker of
\* OldPath
RetargetDocument ==
    DictSet(EmptyDict, "ltex.dictionary",
            Dict(DictSet(EmptyDict, LangEn, StrList(<<_create_marker(OldPath)>>))))

RetargetInit ==
    /\ settings = [InitSettings EXCEPT
                       !["settings"] = Dict(RetargetDocument),
                       ![FindScope("ltex.dictionary").enable_key] = Bool(TRUE)]
    /\ fs \in {[p \in Paths |->
                   IF p = OldPath
                   THEN [exists |-> TRUE, lines |-> lines, mtime |-> 1]
                   ELSE [exists |-> FALSE, lines |-> <<>>, mtime |-> 0]] :
                 lines \in ExternalContents}
    /\ dirs = {}
    /\ cache = [p \in Paths |-> NoEntry]
    /\ call = NoCall
    /\ ops = 0
    /\ lock = 0
    /\ thr = [t \in Threads |-> NoFrame]

RetargetNext ==
    \/ UpdateFromCodeAction
    \/ ExpandSettings
    \/ SetEnabled

RetargetSpec == RetargetInit /\ [][RetargetNext]_vars

(***************************************************************************)
(* The plugin: on_pre_server_command and its handlers.  A command is a     *)
(* mapping with the keys "command" and "arguments"; the mapping under a    *)
(* payload's words, falsePositives or ruleIds is ordered, as the value of  *)
(* update_from_code_action is.  events lists, in order, what a call did:   *)
(* "update" for update_from_code_action, "notify" for send_notification,   *)
(* "check" for set_timeout_async(delayed_check, 100) and "done" for        *)
(* set_timeout_async(done_callback).                                       *)
(***************************************************************************)
\* a command's name as a value
Name(n) == [t |-> "str", v |-> n]

\* the payload key and the settings key of the handler of a command
Handlers ==
    [name \in {"_ltex.addToDictionary", "_ltex.hideFalsePositives",
               "_ltex.disableRules"} |->
        CASE name = "_ltex.addToDictionary" ->
                 [field |-> "words", key |-> "ltex.dictionary"]
          [] name = "_ltex.hideFalsePositives" ->
                 [field |-> "falsePositives", key |-> "ltex.hiddenFalsePositives"]
          [] name = "_ltex.disableRules" ->
                 [field |-> "ruleIds", key |-> "ltex.disabledRules"]]

\* return False, of on_pre_server_command and of the handlers
NotHandled(st, c, f, d) ==
    [settings |-> st, cache |-> c, fs |-> f, dirs |-> d, ret |-> FALSE,
     events |-> <<>>, manual |-> FALSE, out |-> EmptyDict, failures |-> {}]

_get_payload(command) ==
    IF /\ Get(command, "arguments").t = "list"
       /\ Get(command, "arguments").v # <<>>
       /\ Get(command, "arguments").v[1].t = "dict"
    THEN Get(command, "arguments").v[1].v
    ELSE EmptyDict

\* _trigger_manual_update from the expansion x on: the notification, the
\* re-check when the payload has a uri; then the callback of _finalize_command
_trigger_manual_update(r, x, payload) ==
    [settings |-> r.settings, cache |-> x.cache, fs |-> r.fs, dirs |-> r.dirs,
     ret |-> TRUE,
     events |-> <<"update", "notify">>
                    \o (IF Truthy(Get(payload, "uri")) THEN <<"check">> ELSE <<>>)
                    \o <<"done">>,
     manual |-> TRUE, out |-> x.doc, failures |-> r.failures]

\* _finalize_command(manual_update, payload, done_callback), and return True
_finalize_command(r, payload) ==
    IF r.ret
    THEN _trigger_manual_update(r,
             expand_settings(_as_dict(Get(r.settings, "settings")), r.cache, r.fs, {}),
             payload)
    ELSE [settings |-> r.settings, cache |-> r.cache, fs |-> r.fs, dirs |-> r.dirs,
          ret |-> TRUE, events |-> <<"update", "done">>, manual |-> FALSE,
          out |-> EmptyDict, failures |-> r.failures]

\* _handle_add_to_dictionary, _handle_hide_false_positives and
\* _handle_disable_rules, which differ in h
HandleCommand(st, c, f, d, h, payload, writeFails) ==
    IF Get(payload, h.field).t = "dict"
    THEN _finalize_command(
             update_from_code_action(st, c, f, d, h.key, Get(payload, h.field).v,
                                     writeFails),
             payload)
    ELSE NotHandled(st, c, f, d)

on_pre_server_command(st, c, f, d, session, command, writeFails) ==
    IF ~session THEN NotHandled(st, c, f, d)
    ELSE IF Get(command, "command").t # "str" \/ Get(command, "command").v = ""
    THEN NotHandled(st, c, f, d)
    ELSE IF Get(command, "command").v \in DOMAIN Handlers
    THEN HandleCommand(st, c, f, d, Handlers[Get(command, "command").v],
                       _get_payload(command), writeFails)
    ELSE NotHandled(st, c, f, d)

\* the names of the commands of the model: the three that are handled, one
\* that is not, and the empty name
CommandNames ==
    {"_ltex.addToDictionary", "_ltex.hideFalsePositives", "_ltex.disableRules",
     "_ltex.checkDocument", ""}

\* the mappings of the payloads
CommandValues ==
    { << <<LangEn, StrList(<<WordA>>)>> >>,
      << <<LangEn, StrList(<<WordB>>)>> >> }

\* what a payload holds under words, falsePositives or ruleIds
Contents == {Dict(value) : value \in CommandValues} \cup {StrList(<<WordA>>)}

\* the payloads: one of the three keys, with or without a uri
Payloads ==
    {[k \in {field} \cup uri |-> IF k = "uri" THEN Str(<<"u">>) ELSE content] :
         field \in {"words", "falsePositives", "ruleIds"},
         content \in Contents, uri \in {{}, {"uri"}}}

\* the commands with a payload
PayloadCommands ==
    {[k \in {"command", "arguments"} |->
         IF k = "command" THEN Name(name) ELSE List(<<Dict(payload)>>)] :
         name \in CommandNames, payload \in Payloads}

\* the commands without one: no arguments, none in the list, a first argument
\* that is no mapping; and these without a name
BareCommands ==
    {[k \in named \cup arguments |->
         IF k = "command" THEN Name(name) ELSE List(first)] :
         name \in CommandNames, named \in {{}, {"command"}},
         arguments \in {{}, {"arguments"}}, first \in {<<>>, <<Str(WordA)>>}}

\* the state after on_pre_server_command(command, done_callback) returned r
CommandStep(session, command, r) ==
    /\ Step
    /\ TimeOk(r.fs)
    /\ settings' = r.settings
    /\ cache' = r.cache
    /\ fs' = r.fs
    /\ dirs' = r.dirs
    /\ call' = [NoCall EXCEPT !.op = "command", !.session = session,
                              !.cmd = command, !.ret = r.ret,
                              !.events = r.events, !.manual = r.manual,
                              !.out = r.out]
    /\ UNCHANGED <<lock, thr>>

PreServerCommand ==
    \E session \in BOOLEAN, command \in PayloadCommands :
        CommandStep(session, command,
            on_pre_server_command(settings, cache, fs, dirs, session, command, {}))

PreServerCommandBare ==
    \E session \in BOOLEAN, command \in BareCommands :
        CommandStep(session, command,
            on_pre_server_command(settings, cache, fs, dirs, session, command, {}))

\* whether on_pre_server_command reaches update_from_code_action
ReachesUpdate(session, command) ==
    /\ session
    /\ Get(command, "command").t = "str"
    /\ Get(command, "command").v \in DOMAIN Handlers
    /\ Get(_get_payload(command), Handlers[Get(command, "command").v].field).t = "dict"

\* a command whose update needs a directory that is not there and cannot be
\* made: the exception of path.parent.mkdir leaves update_from_code_action,
\* the handler and on_pre_server_command
PreServerCommandMkdirFails ==
    \E command \in PayloadCommands :
        /\ Step
        /\ ReachesUpdate(TRUE, command)
        /\ TakesExternal(settings, Handlers[Get(command, "command").v].key)
        /\ Parent(_get_active_dict_path(settings,
                      FindScope(Handlers[Get(command, "command").v].key),
                      LangEn)) \notin dirs
        /\ call' = [NoCall EXCEPT !.op = "command", !.session = TRUE,
                                  !.cmd = command, !.failed = TRUE,
                                  !.raised = TRUE]
        /\ UNCHANGED <<settings, fs, dirs, cache, lock, thr>>

\* the state after a command whose update returned r, true, and whose
\* _trigger_manual_update met a path.stat that raises in expand_settings
StatFailsAfter(command, r) ==
    /\ Step
    /\ TimeOk(r.fs)
    /\ r.ret
    /\ LoadsMarker(_as_dict(Get(r.settings, "settings")))
    /\ settings' = r.settings
    /\ cache' = r.cache
    /\ fs' = r.fs
    /\ dirs' = r.dirs
    /\ call' = [NoCall EXCEPT !.op = "command", !.session = TRUE,
                              !.cmd = command, !.events = <<"update">>,
                              !.manual = TRUE, !.failed = TRUE, !.raised = TRUE]
    /\ UNCHANGED <<lock, thr>>

PreServerCommandStatFails ==
    \E command \in PayloadCommands :
        /\ ReachesUpdate(TRUE, command)
        /\ StatFailsAfter(command,
               update_from_code_action(settings, cache, fs, dirs,
                   Handlers[Get(command, "command").v].key,
                   Get(_get_payload(command),
                       Handlers[Get(command, "command").v].field).v, {}))

(***************************************************************************)
(* PluginSpec: the commands the server's code actions send, while the user *)
(* turns the external dictionary files on and off.                         *)
(***************************************************************************)
PluginNext ==
    \/ PreServerCommand
    \/ PreServerCommandBare
    \/ PreServerCommandMkdirFails
    \/ PreServerCommandStatFails
    \/ SetEnabled

PluginSpec == Init /\ [][PluginNext]_vars

(***************************************************************************)
(* Properties.                                                             *)
(***************************************************************************)
\* the number of occurrences of x in the sequence seq
Count(seq, x) == Cardinality({i \in 1..Len(seq) : seq[i] = x})

\* the entries the server receives for a language of a scope key: the stored
\* configuration after expand_settings
Expanded(st, c, f, key, lang) ==
    StrItems(_as_list(Get(_as_dict(Get(
        expand_settings(_as_dict(Get(st, "settings")), c, f, {}).doc, key)), lang)))

\* the stored entries of a language of a scope key
Stored(st, key, lang) ==
    StrItems(_as_list(Get(_as_dict(Get(_as_dict(Get(st, "settings")), key)), lang)))

\* the words a file holds
FileWords(f, path) == IF f[path].exists THEN ParseWords(f[path].lines) ELSE {}

\* the incoming entries of the i-th language of a value
Incoming(value, i) == StrItems(_as_list(value[i][2]))

\* the incoming entries that are words: non-empty after trimming, no comment
ValidIncoming(value, i) == {e \in Range(Incoming(value, i)) : IsWord(strip(e))}

\* whether the last call was an update with no failed write, after which the
\* expansion holds the entry e of the i-th language exactly once (trimmed in
\* external mode)
ExpandedOnce(i, e) ==
    Count(Expanded(settings, cache, fs, call.key, call.value[i][1]),
          IF call.external THEN strip(e) ELSE e) = 1

\* C1 as stated: after an update_from_code_action on a known scope during
\* which no write failed, in either mode, the expansion of the stored
\* configuration holds, under the scope's key and the language, every
\* incoming entry that is non-empty after trimming and no comment (trimmed
\* in external mode), exactly once.
C1_AsStated ==
    (call.op = "update" /\ ~call.failed) =>
        \A i \in 1..Len(call.value) :
            \A e \in ValidIncoming(call.value, i) : ExpandedOnce(i, e)

\* C1: the same for the incoming entries that, in inline mode, do not begin
\* with ":".  An inline list whose only entry begins with ":" is a marker to
\* expand_settings.
C1_UpdateThenExpand ==
    (call.op = "update" /\ ~call.failed) =>
        \A i \in 1..Len(call.value) :
            \A e \in ValidIncoming(call.value, i) :
                (call.external \/ ~startswith(e, ":")) => ExpandedOnce(i, e)

\* an external-mode update of a padded entry, and its trimmed form in the
\* expansion
C1_Witness ==
    /\ call.op = "update" /\ ~call.failed /\ call.external
    /\ call.value = << <<LangEn, StrList(<<PaddedA, WordB>>)>> >>
    /\ Expanded(settings, cache, fs, call.key, LangEn) = <<WordA, WordB>>

\* C2: whenever a cache entry's mtime equals the file's current modification
\* time (-1 for an absent file), the cached words are the non-empty,
\* non-comment trimmed lines of the file.
C2_CacheValid ==
    \A p \in Paths :
        (cache[p].present /\ cache[p].mtime = CurrentMtime(fs, p)) =>
            cache[p].words = FileWords(fs, p)

\* whether a list holds a marker next to another entry
Mixed(list) ==
    /\ Len(list) > 1
    /\ \E i \in 1..Len(list) : _is_external_marker(list[i])

\* C3: every language entry under every scope key is a list of literal
\* entries or exactly one marker; no list mixes a marker with other entries.
C3_Exclusive ==
    \A i \in 1..Len(_SCOPES) :
        \A lang \in DOMAIN _as_dict(Get(_as_dict(Get(settings, "settings")),
                                        _SCOPES[i].server_key)) :
            ~Mixed(Stored(settings, _SCOPES[i].server_key, lang))

\* the file of the i-th language of an update of scope key
TargetPath(st, key, value, i) ==
    _get_active_dict_path(st, FindScope(key), value[i][1])

\* the trimmed forms of the entries of a list that are words
TrimmedWords(list) == {strip(e) : e \in {x \in Range(list) : IsWord(strip(x))}}

\* whether the step is an external-mode update whose i-th language has
\* incoming entries and a stored list of literal entries only
Migrates(i) ==
    /\ call'.op = "update" /\ call'.external
    /\ i \in 1..Len(call'.value)
    /\ Incoming(call'.value, i) # <<>>
    /\ Stored(settings, call'.key, call'.value[i][1]) # <<>>
    /\ \A x \in Range(Stored(settings, call'.key, call'.value[i][1])) : NotMarker(x)

\* what C4 promises of such a step
Migrated(i) ==
    /\ TrimmedWords(Stored(settings, call'.key, call'.value[i][1]))
           \subseteq FileWords(fs', TargetPath(settings, call'.key, call'.value, i))
    /\ TrimmedWords(Incoming(call'.value, i))
           \subseteq FileWords(fs', TargetPath(settings, call'.key, call'.value, i))
    /\ Stored(settings', call'.key, call'.value[i][1])
           = <<_create_marker(TargetPath(settings, call'.key, call'.value, i))>>
    /\ call'.persisted
    /\ ~call'.ret

\* C4: an external-mode update with incoming entries I for a language whose
\* stored list holds literal entries L leaves every entry of L and of I in
\* the target file, stores exactly the marker of the target path for the
\* language, persists the configuration and returns false.
C4_Migration ==
    [][\A i \in 1..Len(call'.value) : Migrates(i) => Migrated(i)]_vars

\* whether the step is an external-mode update, every language of which has
\* exactly the marker of its target path stored, with an incoming word that
\* its target file lacks
GrowsSilently ==
    /\ call'.op = "update" /\ call'.external
    /\ \A i \in 1..Len(call'.value) :
           Stored(settings, call'.key, call'.value[i][1])
               = <<_create_marker(TargetPath(settings, call'.key, call'.value, i))>>
    /\ \E i \in 1..Len(call'.value) :
           ~(TrimmedWords(Incoming(call'.value, i))
                 \subseteq FileWords(fs, TargetPath(settings, call'.key, call'.value, i)))

\* C5: such an update appends the new entries to the file, persists nothing,
\* leaves the stored configuration unchanged and returns true.
C5_SilentGrowth ==
    [][GrowsSilently =>
          /\ \A i \in 1..Len(call'.value) :
                 TrimmedWords(Incoming(call'.value, i))
                     \subseteq FileWords(fs', TargetPath(settings, call'.key, call'.value, i))
          /\ ~call'.persisted
          /\ settings' = settings
          /\ call'.ret]_vars

\* whether the step made a word file longer
FileGrew == \E p \in Paths : Len(fs'[p].lines) > Len(fs[p].lines)

\* C6: update_from_code_action returns true only if the call appended an
\* entry to an external file and did not change the stored configuration; in
\* the inline path, and whenever a marker was rewritten, it returns false.
C6_ManualOnlyIfAppended ==
    [][call'.op = "update" =>
          /\ call'.ret => (FileGrew /\ ~call'.persisted /\ settings' = settings)
          /\ (~call'.external \/ call'.persisted) => ~call'.ret]_vars

\* the positions of words whose trimmed entry is a word that base lacks and
\* that no earlier position holds
FreshAt(words, base) ==
    {i \in 1..Len(words) :
        /\ IsWord(strip(words[i]))
        /\ strip(words[i]) \notin base
        /\ \A j \in 1..(i - 1) : strip(words[j]) # strip(words[i])}

RECURSIVE FreshFrom(_, _, _)
\* the trimmed entries at the positions FreshAt, from position i on, in order
FreshFrom(words, base, i) ==
    IF i > Len(words) THEN <<>>
    ELSE (IF i \in FreshAt(words, base) THEN <<strip(words[i])>> ELSE <<>>)
         \o FreshFrom(words, base, i + 1)

\* C9: _append_words_to_file returns exactly the trimmed entries that are
\* words and were neither in the file's word set nor earlier in the call, in
\* the order given; when there are none the file is not written.
C9_ReturnsNewlyAdded ==
    [][call'.op = "append" =>
          /\ call'.added = FreshFrom(call'.words, FileWords(fs, call'.path), 1)
          /\ call'.added = <<>> => fs' = fs]_vars

\* C10: the load that follows an append that added entries, the file not
\* modified from outside in between, uses the cached entry, and its result
\* holds the added entries and the ones the append found.
C10_CoherentAfterAppend ==
    [][(call.op = "append" /\ call.added # <<>> /\ call'.op = "load"
            /\ call'.path = call.path) =>
          /\ call'.hit
          /\ cache'[call.path].mtime = CurrentMtime(fs', call.path)
          /\ Range(call.added) \cup call.before \subseteq call'.result]_vars

\* a load right after an append that wrote a second word to a file
C10_Witness ==
    /\ call.op = "load" /\ call.after = "append"
    /\ call.prior = <<WordB>>
    /\ call.hit
    /\ call.result = {WordA, WordB}
    /\ fs[call.path].lines = <<WordA, WordB>>

\* whether no line of a file repeats another
NoLineTwice(lines) ==
    \A i, j \in 1..Len(lines) : lines[i] = lines[j] => i = j

ExpandAccess(t) == thr[t].pc \in {"x_check", "x_store"} /\ thr'[t] # thr[t]

\* C8: the load of expand_settings never reads or replaces the cache entry
\* while a call of _append_words_to_file is between its load and its refresh
\* of the entry's mtime.
C8_ExpandSerialized ==
    [][\A t \in Threads :
          ExpandAccess(t) => \A u \in Threads : thr[u].pc \notin AfterLoad]_vars

\* whether the words of a list are trimmed words, no two the same
DistinctWords(words) ==
    /\ words # <<>>
    /\ \A i \in 1..Len(words) : IsWord(words[i]) /\ strip(words[i]) = words[i]
    /\ \A i, j \in 1..Len(words) : words[i] = words[j] => i = j

\* a document whose only entry is the marker of a path
MarkerDocument(path) ==
    DictSet(EmptyDict, "ltex.dictionary",
            Dict(DictSet(EmptyDict, LangEn, StrList(<<_create_marker(path)>>))))

\* C11: after N distinct words were appended to a path that had no file, the
\* load of the path gives exactly those N words, and the expansion of a
\* document whose entry is the marker of the path gives exactly those words
\* as a sorted list.
C11_RoundTrip ==
    [][(call'.op = "append" /\ ~fs[call'.path].exists /\ DistinctWords(call'.words)) =>
          /\ _ensure_cache_loaded(cache', fs', call'.path, FALSE).words
                 = Range(call'.words)
          /\ StrItems(_as_list(Get(_as_dict(Get(
                 expand_settings(MarkerDocument(call'.path), cache', fs', {}).doc,
                 "ltex.dictionary")), LangEn)))
                 = sorted(Range(call'.words))]_vars

\* C12: a load of a path whose file is absent gives the empty set and leaves
\* the entry with mtime -1 and no words, whatever happened on the path before.
C12_AbsentFileLoadsEmpty ==
    (call.op = "load" /\ ~fs[call.path].exists) =>
        /\ call.result = {}
        /\ cache[call.path] = [present |-> TRUE, mtime |-> -1, words |-> {}]

\* the positions of the entries of incoming that existing lacks and that no
\* earlier position of incoming holds
NovelAt(existing, incoming) ==
    {i \in 1..Len(incoming) :
        /\ incoming[i] \notin Range(existing)
        /\ \A j \in 1..(i - 1) : incoming[j] # incoming[i]}

RECURSIVE NovelFrom(_, _, _)
\* the entries at the positions NovelAt, from position i on, in order
NovelFrom(existing, incoming, i) ==
    IF i > Len(incoming) THEN <<>>
    ELSE (IF i \in NovelAt(existing, incoming) THEN <<incoming[i]>> ELSE <<>>)
         \o NovelFrom(existing, incoming, i + 1)

\* whether the step is an update on the inline path
InlineUpdate == call'.op = "update" /\ ~call'.external

\* whether the step changed the stored list of the i-th incoming language
ListChanged(i) ==
    Stored(settings', call'.key, call'.value[i][1])
        # Stored(settings, call'.key, call'.value[i][1])

\* C13: an update with the scope's enable flag false leaves, for each incoming
\* language, the stored list followed by the incoming entries it lacked, in
\* their order and once each; it persists the configuration if and only if
\* the list of some language changed; it touches no file, no directory and no
\* cache entry; and it returns false.
C13_InlineMerge ==
    [][InlineUpdate =>
          /\ \A i \in 1..Len(call'.value) :
                 Stored(settings', call'.key, call'.value[i][1])
                     = Stored(settings, call'.key, call'.value[i][1])
                       \o NovelFrom(Stored(settings, call'.key, call'.value[i][1]),
                                    Incoming(call'.value, i), 1)
          /\ call'.persisted <=> \E i \in 1..Len(call'.value) : ListChanged(i)
          /\ ~call'.persisted => settings' = settings
          /\ fs' = fs /\ dirs' = dirs /\ cache' = cache
          /\ ~call'.ret]_vars

\* an inline update of two languages that appended to the stored list of one
\* and stored the list of the other
C13_Witness ==
    /\ call.op = "update" /\ ~call.external /\ call.persisted /\ ~call.ret
    /\ Len(call.value) = 2
    /\ Stored(settings, call.key, LangEn) = <<PaddedA, WordB, WordA>>
    /\ Stored(settings, call.key, LangDe) = <<WordB>>

\* whether every entry of a list is empty after trimming
AllBlank(list) == \A k \in 1..Len(list) : strip(list[k]) = <<>>

\* whether the step is an external-mode update all of whose incoming lists
\* are empty or hold whitespace only
BlankUpdate ==
    /\ call'.op = "update" /\ call'.external
    /\ \A i \in 1..Len(call'.value) : AllBlank(Incoming(call'.value, i))

\* C14: an external-mode update whose incoming lists are empty or hold only
\* whitespace creates and writes no file and no directory, rewrites no
\* stored list to a marker, persists nothing and returns false.
C14_BlankIgnored ==
    [][BlankUpdate =>
          /\ fs' = fs /\ dirs' = dirs
          /\ settings' = settings
          /\ ~call'.persisted
          /\ ~call'.ret]_vars

\* the keys of a scope: the canonical key and its aliases
ScopeKeys(scope) ==
    {scope.server_key} \cup {scope.expand_keys[i] : i \in 1..Len(scope.expand_keys)}

\* the keys of a scope that a document holds
KeysPresent(document, scope) == ScopeKeys(scope) \cap DOMAIN document

\* C15: the stored configuration, which holds at most one key of each scope
\* at the start, holds at most one key of each scope after any sequence of
\* code actions, in either mode.
C15_SingleKey ==
    \A i \in 1..Len(_SCOPES) :
        Cardinality(KeysPresent(_as_dict(Get(settings, "settings")), _SCOPES[i])) <= 1

\* the stored configuration document
Document(st) == _as_dict(Get(st, "settings"))

\* the place of a key among the keys of a scope: the canonical key first,
\* then the aliases as declared
KeyRank(scope, k) ==
    IF k = scope.server_key THEN 0
    ELSE CHOOSE i \in 1..Len(scope.expand_keys) :
             /\ scope.expand_keys[i] = k
             /\ \A j \in 1..(i - 1) : scope.expand_keys[j] # k

\* whether k is the key of the scope that a document is read by
IsActive(document, scope, k) ==
    /\ k \in KeysPresent(document, scope)
    /\ \A k2 \in KeysPresent(document, scope) : KeyRank(scope, k) <= KeyRank(scope, k2)

\* the path a marker list names
MarkerPath(items) == Tail(items[1].v)

\* whether the expansion out of document holds, under key k, the sorted words
\* of file f for every marker and every other entry as it was
ExpandedUnder(document, out, f, k) ==
    /\ out[k].t = "dict"
    /\ DOMAIN out[k].v = DOMAIN document[k].v
    /\ \A lang \in DOMAIN document[k].v :
           out[k].v[lang] =
               IF IsMarkerList(_as_list(document[k].v[lang]))
               THEN StrList(sorted(FileWords(f, MarkerPath(_as_list(document[k].v[lang])))))
               ELSE document[k].v[lang]

\* what C16 says of an expansion
ResolvedExpansion(document, out, f) ==
    /\ DOMAIN out = DOMAIN document
    /\ \A i \in 1..Len(_SCOPES) :
           \A k \in KeysPresent(document, _SCOPES[i]) :
               IF IsActive(document, _SCOPES[i], k)
               THEN document[k].t = "dict" => ExpandedUnder(document, out, f, k)
               ELSE out[k] = document[k]

\* what C16 says of the write-back of an update of scope key
CanonicalWriteBack(document, after, key, persisted) ==
    /\ persisted => FindScope(key).server_key \in DOMAIN after
    /\ \A k \in DOMAIN after :
           k # FindScope(key).server_key => (k \in DOMAIN document /\ after[k] = document[k])

\* C16: expand_settings reads each scope by its canonical key if the
\* document holds it, otherwise by the first alias it holds; it replaces the
\* markers under that key by the sorted words of their files and leaves the
\* other keys, and the scopes with no key, as they were; and an update
\* writes its result under the canonical key.
C16_AliasResolution ==
    [][/\ (call'.op = "expand" /\ ~call'.failed) =>
              ResolvedExpansion(call'.doc, call'.out, fs)
       /\ call'.op = "update" =>
              CanonicalWriteBack(Document(settings), Document(settings'), call'.key,
                                 call'.persisted)]_vars

\* whether a document holds a marker list under a language of a scope key
HasMarker(document) ==
    \E i \in 1..Len(_SCOPES) :
        \E k \in KeysPresent(document, _SCOPES[i]) :
            \E lang \in DOMAIN _as_dict(document[k]) :
                IsMarkerList(_as_list(_as_dict(document[k])[lang]))

\* C17: the expansion of a document that holds no marker equals the
\* document, whatever the types of the values under its scope keys and
\* language tags.
C17_IdentityExpansion ==
    (call.op = "expand" /\ ~HasMarker(call.doc)) => call.out = call.doc

\* the paths that the marker lists under key k of a document name
MarkerPathsUnder(document, k) ==
    {MarkerPath(_as_list(_as_dict(document[k])[lang])) :
        lang \in {l \in DOMAIN _as_dict(document[k]) :
                     IsMarkerList(_as_list(_as_dict(document[k])[l]))}}

\* the paths named by the markers under the scope keys of a document
MarkerPaths(document) ==
    UNION {MarkerPathsUnder(document, k) :
              k \in UNION {KeysPresent(document, _SCOPES[i]) : i \in 1..Len(_SCOPES)}}

\* the paths named by the markers under the keys a document is read by
ActiveMarkerPaths(document) ==
    UNION {MarkerPathsUnder(document, k) :
              k \in UNION {{x \in KeysPresent(document, _SCOPES[i]) :
                               IsActive(document, _SCOPES[i], x)} : i \in 1..Len(_SCOPES)}}

\* the paths whose cache entry the step created or replaced
EntriesChanged == {p \in Paths : cache'[p] # cache[p]}

\* whether the step is an expansion that left the document it was given, the
\* stored configuration, the files and the directories as they were
ExpandFrame ==
    /\ settings' = settings
    /\ call'.doc = Document(settings')
    /\ fs' = fs /\ dirs' = dirs

MarkerPersisted(i) ==
    /\ call'.op = "update" /\ call'.external /\ call'.persisted
    /\ Incoming(call'.value, i) # <<>>
    /\ Stored(settings', call'.key, call'.value[i][1])
           = <<_create_marker(TargetPath(settings, call'.key, call'.value, i))>>

\* the entries stored for the i-th language before the step that are no markers
InlineBefore(i) ==
    SelectSeq(Stored(settings, call'.key, call'.value[i][1]), NotMarker)

\* C19: when an external-mode update has persisted the marker of a language,
\* the file the marker points to holds every entry that was inline for the
\* language before the call: the appends are done before the marker is
\* decided.
C19_MarkerAfterAppends ==
    [][\A i \in 1..Len(call'.value) :
          MarkerPersisted(i) =>
              TrimmedWords(InlineBefore(i))
                  \subseteq FileWords(fs', TargetPath(settings, call'.key, call'.value, i))]_vars

\* C20: no call of expand_settings or update_from_code_action ends in an
\* exception because the making of a directory, a stat, a read or a write of
\* a word file failed.
C20_NoFailurePropagates ==
    call.op \in {"update", "expand"} => ~call.raised

\* the value that an expansion of document gives, without a failing read,
\* for a language under a key
ExpandedValue(document, c, f, k, lang) ==
    _as_dict(expand_settings(document, c, f, {}).doc[k])[lang]

\* whether the step is an expansion during which the read of the file EnPath
\* failed, and which returned
ReadFailedExpansion == call'.op = "expand" /\ call'.failed /\ ~call'.raised

\* C21: an expansion during which the read of an existing file fails
\* returns; the failed load gives the empty set and leaves an entry without
\* words; the marker of the file is replaced by the empty list, and every
\* other language of every scope is expanded as it is without the failure.
C21_ReadFailureIsEmpty ==
    [][ReadFailedExpansion =>
          /\ fs[EnPath].exists
          /\ cache'[EnPath] = [present |-> TRUE, mtime |-> CurrentMtime(fs, EnPath),
                               words |-> {}]
          /\ DOMAIN call'.out = DOMAIN call'.doc
          /\ \A i \in 1..Len(_SCOPES) :
                 \A k \in KeysPresent(call'.doc, _SCOPES[i]) :
                     IsActive(call'.doc, _SCOPES[i], k) =>
                         \A lang \in DOMAIN _as_dict(call'.doc[k]) :
                             _as_dict(call'.out[k])[lang] =
                                 IF /\ IsMarkerList(_as_list(_as_dict(call'.doc[k])[lang]))
                                    /\ MarkerPath(_as_list(_as_dict(call'.doc[k])[lang])) = EnPath
                                 THEN StrList(<<>>)
                                 ELSE ExpandedValue(call'.doc, cache, fs, k, lang)]_vars

\* an expansion during which the read of the English file failed has given
\* the empty list for English and the words of the German file for German
C21_Witness ==
    /\ call.op = "expand" /\ call.failed /\ ~call.raised
    /\ FileWords(fs, EnPath) # {}
    /\ Get(_as_dict(Get(call.out, "ltex.dictionary")), LangEn) = StrList(<<>>)
    /\ Get(_as_dict(Get(call.out, "ltex.dictionary")), LangDe) = StrList(<<WordB>>)

\* whether the step is an update with a key of RawKeys
RawUpdate == call'.op = "update" /\ call'.key \in RawKeys

\* the entries stored under a raw key for a language
StoredRaw(st, key, lang) ==
    StrItems(_as_list(Get(_as_dict(Get(Document(st), key)), lang)))

\* C22: an update whose key is the canonical key of no scope (an alias key,
\* an unknown key) is an inline merge under that key, whatever the enable
\* flags: each incoming language's list under the key is the old list
\* followed by the incoming entries it lacked, the configuration is
\* persisted if and only if a list changed, no other key of the
\* configuration changes, no file, directory or cache entry is touched, and
\* the call returns false.
C22_RawKeyInline ==
    [][RawUpdate =>
          /\ \A i \in 1..Len(call'.value) :
                 StoredRaw(settings', call'.key, call'.value[i][1])
                     = StoredRaw(settings, call'.key, call'.value[i][1])
                       \o NovelFrom(StoredRaw(settings, call'.key, call'.value[i][1]),
                                    Incoming(call'.value, i), 1)
          /\ call'.persisted <=> Document(settings') # Document(settings)
          /\ \A k \in DOMAIN Document(settings') \ {call'.key} :
                 k \in DOMAIN Document(settings) /\ Document(settings')[k] = Document(settings)[k]
          /\ \A k \in DOMAIN settings \ {"settings"} : settings'[k] = settings[k]
          /\ fs' = fs /\ dirs' = dirs /\ cache' = cache
          /\ ~call'.ret]_vars

\* an update with the alias key, the external files of its scope enabled, has
\* merged a word into the list under the alias key
C22_Witness ==
    /\ call.op = "update" /\ call.key = "dictionary" /\ call.persisted /\ ~call.ret
    /\ _external_enabled(settings, FindScope("ltex.dictionary"))
    /\ StoredRaw(settings, "dictionary", LangEn) = <<_create_marker(EnPath), WordA>>
    /\ \A p \in Paths : ~fs[p].exists /\ ~cache[p].present

\* the tag s with a "_" for every maximal run of characters outside
\* SafeChars, by positions: a character outside SafeChars gives "_" when it
\* begins a run
RECURSIVE SanitizedFrom(_, _)
SanitizedFrom(s, i) ==
    IF i > Len(s) THEN <<>>
    ELSE (IF s[i] \in SafeChars THEN <<s[i]>>
          ELSE IF i = 1 \/ s[i - 1] \in SafeChars THEN <<"_">>
          ELSE <<>>)
         \o SanitizedFrom(s, i + 1)

\* the sanitized form of a tag, "unknown" when it is empty
Sanitized(s) == IF SanitizedFrom(s, 1) = <<>> THEN <<"unknown">> ELSE SanitizedFrom(s, 1)

\* the file name of a scope for a sanitized tag
FileName(scope, safe_lang) == scope.file_template.pre \o safe_lang \o scope.file_template.post

\* whether path is the file called name directly in the directory base_dir
DirectChild(path, base_dir, name) ==
    /\ path = base_dir \o <<"/">> \o name
    /\ name # <<>> /\ name # <<".">> /\ name # <<".", ".">>
    /\ "/" \notin Range(name)

\* C23 as stated: the path of a language tag is the file, directly in the
\* scope's directory, named by the scope's template with the sanitized tag.
C23_AsStated ==
    call.op = "path" =>
        DirectChild(call.path, _get_external_dir(settings, FindScope(call.key)),
                    FileName(FindScope(call.key), Sanitized(call.lang)))

\* C23: the same with the tag trimmed of the whitespace around it before it
\* is sanitized.
C23_SanitizedChild ==
    call.op = "path" =>
        DirectChild(call.path, _get_external_dir(settings, FindScope(call.key)),
                    FileName(FindScope(call.key), Sanitized(strip(call.lang))))

\* the path of the tag "//" for the scope of the hidden false positives, its
\* directory set to a relative one
C23_Witness ==
    /\ call.op = "path" /\ call.key = "ltex.hiddenFalsePositives"
    /\ call.lang = <<"/", "/">>
    /\ settings["external_hidden_false_positives_dir"] = Str(<<"d">>)
    /\ call.path = <<"/Packages", "/", "User", "/", "d", "/",
                     "hiddenFalsePositives.", "_", ".txt">>

\* the directories of the storage directory of the plugin
Storage(d) == {p \in d : Below(p, basedir)}

\* C24: a call of install_or_update in which a step fails shows an error
\* message and returns, and leaves the storage directory as it was or with
\* the complete new server; a server that was installed before the call is
\* installed after it.
C24_InstallAtomic ==
    [][(call'.op = "install" /\ call'.failed) =>
          /\ call'.message /\ ~call'.raised
          /\ \/ Storage(dirs') = Storage(dirs)
             \/ Storage(dirs') = {basedir} \cup ServerTree(serverdir(settings))
          /\ ~needs_update_or_installation(settings, dirs)
                 => ~needs_update_or_installation(settings', dirs')]_vars

\* whether the step is an append, its write succeeding, of the words of the
\* append before it, whose write failed
RetriedAppend ==
    /\ call.op = "append" /\ call.failed
    /\ call'.op = "append" /\ ~call'.failed
    /\ call'.path = call.path /\ call'.words = call.words

\* C25: an append that repeats, with a working write, the append before it
\* whose write failed writes the entries of that append to the file and
\* returns them as added.
C25_RetryAfterFailedWrite ==
    [][RetriedAppend =>
          /\ call'.added = call.added
          /\ call'.wrote
          /\ Range(call.added) \subseteq FileWords(fs', call'.path)]_vars

\* whether the stored configuration holds what the call of thread t was to
\* store: the marker of the language's file in external mode, every incoming
\* entry otherwise
HoldsChange(st, t) ==
    \A i \in 1..Len(thr[t].value) :
        IF TakesExternal(st, thr[t].key)
        THEN Stored(st, thr[t].key, thr[t].value[i][1])
                 = <<_create_marker(TargetPath(st, thr[t].key, thr[t].value, i))>>
        ELSE Range(Incoming(thr[t].value, i))
                 \subseteq Range(Stored(st, thr[t].key, thr[t].value[i][1]))

\* whether two threads returned from code actions that ran at the same time,
\* on one scope and on different languages
BothReturned(t, u) ==
    /\ t # u
    /\ thr[t].pc = "done" /\ thr[t].op = "update"
    /\ thr[u].pc = "done" /\ thr[u].op = "update"
    /\ thr[t].overlap
    /\ thr[t].key = thr[u].key
    /\ {thr[t].value[i][1] : i \in 1..Len(thr[t].value)}
           \cap {thr[u].value[i][1] : i \in 1..Len(thr[u].value)} = {}

\* C26: after two code actions on one scope and different languages ran at
\* the same time, the stored configuration holds the change of each.
C26_NoLostUpdate ==
    \A t, u \in Threads :
        BothReturned(t, u) => HoldsChange(settings, t) /\ HoldsChange(settings, u)

\* whether the step is an external-mode update, no write failing, whose i-th
\* language has incoming entries and a stored list that is one marker, of
\* another file than the one the update computes
Retargets(i) ==
    /\ call'.op = "update" /\ call'.external /\ ~call'.failed
    /\ i \in 1..Len(call'.value)
    /\ Incoming(call'.value, i) # <<>>
    /\ Len(Stored(settings, call'.key, call'.value[i][1])) = 1
    /\ _is_external_marker(Stored(settings, call'.key, call'.value[i][1])[1])
    /\ Stored(settings, call'.key, call'.value[i][1])
           # <<_create_marker(TargetPath(settings, call'.key, call'.value, i))>>

\* C27: an external-mode update of a language whose stored marker names
\* another file than the computed one leaves, in the language's expansion,
\* every entry the expansion held before and the incoming words.
C27_RetargetKeepsEntries ==
    [][\A i \in 1..Len(call'.value) :
          Retargets(i) =>
              Range(Expanded(settings, cache, fs, call'.key, call'.value[i][1]))
                  \cup TrimmedWords(Incoming(call'.value, i))
              \subseteq Range(Expanded(settings', cache', fs', call'.key,
                                       call'.value[i][1]))]_vars

\* whether the step is a call of update_from_code_action, no write failing,
\* that repeats the call before it
RepeatedUpdate == call'.op = "update" /\ call'.repeat /\ ~call'.failed

\* C28: an update that repeats the update before it, which had no failure,
\* changes no file and not the stored configuration, persists nothing and
\* returns false.
C28_Idempotent ==
    [][RepeatedUpdate =>
          /\ fs' = fs
          /\ dirs' = dirs
          /\ settings' = settings
          /\ ~call'.persisted
          /\ ~call'.ret]_vars

\* an external-mode update repeated right after the update that wrote the
\* language's file and stored its marker
C28_Witness ==
    /\ call.op = "update" /\ call.repeat /\ ~call.failed
    /\ call.external
    /\ ops = 3
    /\ fs[EnPath].exists
    /\ Stored(settings, call.key, LangEn) = <<_create_marker(EnPath)>>

\* whether a call of on_pre_server_command had a session, one of the three
\* commands and, in the first of its arguments, a mapping under the key of
\* that command
Intercepts ==
    /\ call'.session
    /\ "command" \in DOMAIN call'.cmd
    /\ "arguments" \in DOMAIN call'.cmd
    /\ call'.cmd["arguments"].t = "list"
    /\ call'.cmd["arguments"].v # <<>>
    /\ call'.cmd["arguments"].v[1].t = "dict"
    /\ \E name \in DOMAIN Handlers :
           /\ call'.cmd["command"] = Name(name)
           /\ Handlers[name].field \in DOMAIN call'.cmd["arguments"].v[1].v
           /\ call'.cmd["arguments"].v[1].v[Handlers[name].field].t = "dict"

\* the places of an event in the events of the call
Places(e) == {i \in 1..Len(call'.events) : call'.events[i] = e}

\* whether every e1 of the call comes before every e2
Precedes(e1, e2) == \A i \in Places(e1), j \in Places(e2) : i < j

\* C29: on_pre_server_command returns True exactly for a command it
\* intercepts; then it schedules done_callback once, after the update and
\* after the notification, which is sent only when the update returned true
\* and before the re-check is scheduled; for any other command it schedules
\* nothing and changes no setting, file or cache entry.
C29_Interception ==
    [][call'.op = "command" =>
          /\ call'.ret = Intercepts
          /\ Intercepts =>
                 /\ Cardinality(Places("done")) = 1
                 /\ Precedes("update", "done")
                 /\ Places("update") # {}
                 /\ Precedes("notify", "done")
                 /\ Places("notify") # {} => call'.manual
                 /\ Precedes("notify", "check")
          /\ ~Intercepts =>
                 /\ call'.events = <<>>
                 /\ settings' = settings
                 /\ fs' = fs
                 /\ cache' = cache]_vars

====
